---- MODULE Spec2Model ----
(***************************************************************************)
(* A model of the glob library (src/src/lib.rs): the pattern compiler      *)
(* Pattern::new, Pattern::escape, the backtracking matcher                 *)
(* Pattern::matches_from and the work-stack traversal glob_with /          *)
(* Paths::next / fill_todo over a small file system.                       *)
(*                                                                         *)
(* Strings are sequences of one-character strings.  Indices i, old, pos    *)
(* are the 0-based indices of the source; At(s, i) reads s[i].             *)
(* The platform is POSIX: is_sep(c) is c = '/', cfg!(windows) is false.    *)
(***************************************************************************)
EXTENDS Integers, Sequences, FiniteSets, TLC

VARIABLES
    mode,         \* which entry point of the library this behaviour drives
    pc,           \* position of the driving caller
    src,          \* the string handed to Pattern::new / Pattern::escape / glob_with
    escaped,      \* the string returned by Pattern::escape
    pattern,      \* the value returned by Pattern::new (Ok / Err / Panic record)
    file,         \* the candidate string handed to matches_with
    options,      \* the MatchOptions handed to matches_with / glob_with
    result,       \* the value returned by matches_with
    fs,           \* the directory tree the traversal walks
    paths,        \* the Paths iterator: dir_patterns, require_dir, options, todo
    yielded,      \* the paths returned by next() so far, in order
    last          \* what the latest call of next() returned

vars == <<mode, pc, src, escaped, pattern, file, options, result, fs, paths, yielded, last>>

----------------------------------------------------------------------------
(* Bounds of the model *)

\* longest raw pattern string handed to Pattern::new in the compiler runs
MaxPatLen == 5
\* most pieces (a character or a bracket class) of a pattern in the matcher runs
MaxPieces == 3
\* longest candidate string handed to matches_with
MaxFileLen == 3
\* longest string handed to Pattern::escape
MaxEscLen == 3
\* most separator-delimited components of a traversal pattern
MaxComps == 3

----------------------------------------------------------------------------
(* Characters *)

\* code points of the characters the model uses (char comparisons are by code point)
Code ==
    [c \in {"!", "*", "-", ".", "/", "?", "A", "B", "[", "]", "a", "b"} |->
        CASE c = "!" -> 33 [] c = "*" -> 42 [] c = "-" -> 45 [] c = "." -> 46
          [] c = "/" -> 47 [] c = "?" -> 63 [] c = "A" -> 65 [] c = "B" -> 66
          [] c = "[" -> 91 [] c = "]" -> 93 [] c = "a" -> 97 [] c = "b" -> 98]

Chars == DOMAIN Code

is_sep(c) == c = "/"

to_ascii_lowercase(c) == CASE c = "A" -> "a" [] c = "B" -> "b" [] OTHER -> c

to_uppercase(c) == CASE c = "a" -> "A" [] c = "b" -> "B" [] OTHER -> c

\* every character of the model is ASCII
is_ascii(c) == c \in Chars

At(s, i) == s[i + 1]

\* s.slice(from, to): the elements of indices from .. to-1
Slice(s, from, to) == SubSeq(s, from + 1, to)

\* all sequences over S of length at most n
SeqsUpTo(S, n) == UNION {[1..k -> S] : k \in 0..n}

RECURSIVE Concat(_)
Concat(ss) == IF ss = <<>> THEN <<>> ELSE Head(ss) \o Concat(Tail(ss))

----------------------------------------------------------------------------
(* usize arithmetic.  The toolchain this source is written for (`0us`      *)
(* literals, `|&:` closures, std::io::fs) has no overflow checks: usize    *)
(* subtraction wraps.  The modulus stands for 2^64; every length of the    *)
(* model is far below it, so a wrapped small negative exceeds every index, *)
(* as it does in the source (the model checker's integers have 32 bits).   *)

USIZE_MODULUS == 2^30

WrapSub(a, b) == (a - b) % USIZE_MODULUS

----------------------------------------------------------------------------
(* PatternToken, CharSpecifier, Error *)

Char(c)  == [t |-> "Char", c |-> c, cs |-> <<>>]
AnyChar  == [t |-> "AnyChar", c |-> "", cs |-> <<>>]
AnySequence == [t |-> "AnySequence", c |-> "", cs |-> <<>>]
AnyRecursiveSequence == [t |-> "AnyRecursiveSequence", c |-> "", cs |-> <<>>]
AnyWithin(cs) == [t |-> "AnyWithin", c |-> "", cs |-> cs]
AnyExcept(cs) == [t |-> "AnyExcept", c |-> "", cs |-> cs]

SingleChar(c) == [k |-> "SingleChar", lo |-> c, hi |-> c]
CharRange(lo, hi) == [k |-> "CharRange", lo |-> lo, hi |-> hi]

\* (the message of the source, its backquotes written as quotes)
ERROR_WILDCARDS == "wildcards are either regular '*' or recursive '**'"
ERROR_RECURSIVE_WILDCARDS == "recursive wildcards must form a single path component"
ERROR_INVALID_RANGE == "invalid range pattern"

\* the three outcomes of Pattern::new: Ok(Pattern), Err(Error), or an abort
\* (index out of bounds / slice out of range)
Ok(tokens, original, is_recursive) ==
    [kind |-> "Ok", tokens |-> tokens, original |-> original,
     is_recursive |-> is_recursive, pos |-> 0, msg |-> ""]
Err(pos, msg) ==
    [kind |-> "Err", tokens |-> <<>>, original |-> <<>>,
     is_recursive |-> FALSE, pos |-> pos, msg |-> msg]
Panic ==
    [kind |-> "Panic", tokens |-> <<>>, original |-> <<>>,
     is_recursive |-> FALSE, pos |-> 0, msg |-> ""]
NoPattern ==
    [kind |-> "None", tokens |-> <<>>, original |-> <<>>,
     is_recursive |-> FALSE, pos |-> 0, msg |-> ""]

----------------------------------------------------------------------------
(* parse_char_specifiers *)

RECURSIVE parse_char_specifiers_from(_, _)
parse_char_specifiers_from(s, i) ==
    IF i >= Len(s) THEN <<>>
    ELSE IF i + 3 <= Len(s) /\ At(s, i + 1) = "-"
         THEN <<CharRange(At(s, i), At(s, i + 2))>> \o parse_char_specifiers_from(s, i + 3)
         ELSE <<SingleChar(At(s, i))>> \o parse_char_specifiers_from(s, i + 1)

parse_char_specifiers(s) == parse_char_specifiers_from(s, 0)

----------------------------------------------------------------------------
(* Pattern::new *)

\* chars.slice_from(from).position_elem(&']'): the offset of the first ']' at or
\* after index `from`, or -1 for None
RECURSIVE position_elem_from(_, _, _)
position_elem_from(chars, from, j) ==
    IF from + j >= Len(chars) THEN -1
    ELSE IF At(chars, from + j) = "]" THEN j
    ELSE position_elem_from(chars, from, j + 1)

\* while i < chars.len() && chars[i] == '*' { i += 1 }
RECURSIVE SkipStars(_, _)
SkipStars(chars, i) ==
    IF i < Len(chars) /\ At(chars, i) = "*" THEN SkipStars(chars, i + 1) ELSE i

\* mutant of WildcardsErrPos: the start of the run is reported
WildcardsErrPosAtRun(old) == old

\* the position reported for a run of more than two `*` that starts at old
WildcardsErrPos(old) == old + 2

\* mutant of RecursiveEndErrPos: the start of the `**` is reported
RecursiveEndErrPosAtRun(old, i) == old

\* the position reported for a `**` at old..i that is followed by a non-separator
RecursiveEndErrPos(old, i) == i

\* the position reported for a `**` at old..i that is preceded by a non-separator
RecursiveBeginErrPos(old, i) == old - 1

\* mutant of RecursiveBeginsOk: the test for a preceding '/' is left out
RecursiveBeginsOnlyAtStart(chars, i, count) == i = 2

\* is the `**` ending at i (count = 2) at the beginning of the pattern or after '/'
RecursiveBeginsOk(chars, i, count) == i = 2 \/ At(chars, i - count - 1) = "/"

\* may the valid `**` be pushed, or does it collapse into the token before it
PushRecursive(tokens) ==
    LET tokens_len == Len(tokens)
    IN  ~(tokens_len > 1 /\ tokens[tokens_len] = AnyRecursiveSequence)

\* the '*' arm: [next |-> the new i, tokens, is_recursive] or [err |-> Error]
StarArm(chars, old, tokens, is_recursive) ==
    LET i == SkipStars(chars, old)
        count == i - old
        go(ni, toks, rec) == [err |-> NoPattern, next |-> ni, tokens |-> toks, is_recursive |-> rec]
        fail(e) == [err |-> e, next |-> 0, tokens |-> <<>>, is_recursive |-> FALSE]
        pushed(ni) ==
            IF PushRecursive(tokens)
            THEN go(ni, Append(tokens, AnyRecursiveSequence), TRUE)
            ELSE go(ni, tokens, is_recursive)
    IN  IF count > 2 THEN fail(Err(WildcardsErrPos(old), ERROR_WILDCARDS))
        ELSE IF count = 2 THEN
            IF RecursiveBeginsOk(chars, i, count) THEN
                IF i < Len(chars) /\ At(chars, i) = "/" THEN pushed(i + 1)
                ELSE IF i = Len(chars) THEN pushed(i)
                ELSE fail(Err(RecursiveEndErrPos(old, i), ERROR_RECURSIVE_WILDCARDS))
            ELSE fail(Err(RecursiveBeginErrPos(old, i), ERROR_RECURSIVE_WILDCARDS))
        ELSE go(i, Append(tokens, AnySequence), is_recursive)

\* mutant of WithinArm: the class is closed by the first `]` after the bracket
WithinArmFirstCloses(chars, i, tokens, is_recursive) ==
    LET len == Len(chars)
        go(ni, toks) == [err |-> NoPattern, next |-> ni, tokens |-> toks, is_recursive |-> is_recursive]
        invalid == [err |-> Err(i, ERROR_INVALID_RANGE), next |-> 0, tokens |-> <<>>, is_recursive |-> FALSE]
    IN  IF i <= WrapSub(len, 3) /\ At(chars, i + 1) # "!" THEN
            LET j == position_elem_from(chars, i + 1, 0)
            IN  IF j = -1 THEN invalid
                ELSE go(i + j + 2,
                        Append(tokens, AnyWithin(parse_char_specifiers(Slice(chars, i + 1, i + 1 + j)))))
        ELSE invalid

\* the `else if i <= chars.len() - 3 && chars[i + 1] != '!'` arm of '['
WithinArm(chars, i, tokens, is_recursive) ==
    LET len == Len(chars)
        go(ni, toks) == [err |-> NoPattern, next |-> ni, tokens |-> toks, is_recursive |-> is_recursive]
        invalid == [err |-> Err(i, ERROR_INVALID_RANGE), next |-> 0, tokens |-> <<>>, is_recursive |-> FALSE]
    IN  IF i <= WrapSub(len, 3) /\ At(chars, i + 1) # "!" THEN
            LET j == position_elem_from(chars, i + 2, 0)
            IN  IF j = -1 THEN invalid
                ELSE go(i + j + 3,
                        Append(tokens, AnyWithin(parse_char_specifiers(Slice(chars, i + 1, i + 2 + j)))))
        ELSE invalid

\* the '[' arm: [next, tokens] or [err |-> Err / Panic]
BracketArm(chars, i, tokens, is_recursive) ==
    LET len == Len(chars)
        go(ni, toks) == [err |-> NoPattern, next |-> ni, tokens |-> toks, is_recursive |-> is_recursive]
        fail(e) == [err |-> e, next |-> 0, tokens |-> <<>>, is_recursive |-> FALSE]
    IN  IF i <= WrapSub(len, 4) THEN
            \* chars[i + 1] is read: an index past the end aborts
            IF i + 1 >= len THEN fail(Panic)
            ELSE IF At(chars, i + 1) = "!" THEN
                \* chars.slice_from(i + 3): a start past the end aborts
                IF i + 3 > len THEN fail(Panic)
                ELSE LET j == position_elem_from(chars, i + 3, 0)
                     IN  IF j = -1 THEN fail(Err(i, ERROR_INVALID_RANGE))
                         ELSE go(i + j + 4,
                                 Append(tokens, AnyExcept(parse_char_specifiers(Slice(chars, i + 2, i + 3 + j)))))
            ELSE WithinArm(chars, i, tokens, is_recursive)
        ELSE WithinArm(chars, i, tokens, is_recursive)

\* the while loop of Pattern::new
RECURSIVE NewLoop(_, _, _, _)
NewLoop(chars, i, tokens, is_recursive) ==
    IF i >= Len(chars) THEN Ok(tokens, chars, is_recursive)
    ELSE LET c == At(chars, i)
         IN  IF c = "?" THEN NewLoop(chars, i + 1, Append(tokens, AnyChar), is_recursive)
             ELSE IF c = "*" THEN
                 LET r == StarArm(chars, i, tokens, is_recursive)
                 IN  IF r.err # NoPattern THEN r.err
                     ELSE NewLoop(chars, r.next, r.tokens, r.is_recursive)
             ELSE IF c = "[" THEN
                 LET r == BracketArm(chars, i, tokens, is_recursive)
                 IN  IF r.err # NoPattern THEN r.err
                     ELSE NewLoop(chars, r.next, r.tokens, r.is_recursive)
             ELSE NewLoop(chars, i + 1, Append(tokens, Char(c)), is_recursive)

PatternNew(p) == NewLoop(p, 0, <<>>, FALSE)

----------------------------------------------------------------------------
(* Pattern::escape *)

\* mutant of EscapedChars: `*` is not escaped
EscapedCharsNoStar == {"?", "[", "]"}

\* the characters escape wraps in brackets
EscapedChars == {"?", "*", "[", "]"}

RECURSIVE Escape(_)
Escape(s) ==
    IF s = <<>> THEN <<>>
    ELSE LET c == Head(s)
         IN  (IF c \in EscapedChars THEN <<"[", c, "]">> ELSE <<c>>) \o Escape(Tail(s))

----------------------------------------------------------------------------
(* MatchOptions *)

MatchOptions(cs, rls, rld) ==
    [case_sensitive |-> cs, require_literal_separator |-> rls,
     require_literal_leading_dot |-> rld]

\* MatchOptions::new()
MatchOptionsNew == MatchOptions(TRUE, FALSE, FALSE)

AllOptions ==
    [case_sensitive : BOOLEAN, require_literal_separator : BOOLEAN,
     require_literal_leading_dot : BOOLEAN]

----------------------------------------------------------------------------
(* chars_eq, in_char_specifiers *)

chars_eq(a, b, case_sensitive) ==
    IF ~case_sensitive /\ is_ascii(a) /\ is_ascii(b)
    THEN to_ascii_lowercase(a) = to_ascii_lowercase(b)
    ELSE a = b

\* mutant of in_char_specifier: the endpoints of a range are not lower-cased
\* before the test that they are letters
in_char_specifier_unlowered(specifier, c, opts) ==
    IF specifier.k = "SingleChar"
    THEN chars_eq(c, specifier.lo, opts.case_sensitive)
    ELSE LET start == specifier.lo
             end == specifier.hi
             folded ==
                 /\ ~opts.case_sensitive /\ is_ascii(c) /\ is_ascii(start) /\ is_ascii(end)
                 /\ start # to_uppercase(start) /\ end # to_uppercase(end)
                 /\ Code[to_ascii_lowercase(c)] >= Code[start]
                 /\ Code[to_ascii_lowercase(c)] <= Code[end]
         IN  folded \/ (Code[c] >= Code[start] /\ Code[c] <= Code[end])

\* one iteration of the loop of in_char_specifiers: does `specifier` accept c
in_char_specifier(specifier, c, opts) ==
    IF specifier.k = "SingleChar"
    THEN chars_eq(c, specifier.lo, opts.case_sensitive)
    ELSE LET start == specifier.lo
             end == specifier.hi
             lstart == to_ascii_lowercase(start)
             lend == to_ascii_lowercase(end)
             folded ==
                 /\ ~opts.case_sensitive /\ is_ascii(c) /\ is_ascii(start) /\ is_ascii(end)
                 /\ lstart # to_uppercase(lstart) /\ lend # to_uppercase(lend)
                 /\ Code[to_ascii_lowercase(c)] >= Code[lstart]
                 /\ Code[to_ascii_lowercase(c)] <= Code[lend]
         IN  folded \/ (Code[c] >= Code[start] /\ Code[c] <= Code[end])

in_char_specifiers(specifiers, c, opts) ==
    \E k \in 1..Len(specifiers) : in_char_specifier(specifiers[k], c, opts)

----------------------------------------------------------------------------
(* Pattern::matches_from, Pattern::matches_with *)

Match == "Match"
SubPatternDoesntMatch == "SubPatternDoesntMatch"
EntirePatternDoesntMatch == "EntirePatternDoesntMatch"

\* Option<char>::None
NoChar == "None"

\* mutant of require_literal: separators are never required to be literal
require_literal_dot_only(c, prev_char, opts) ==
    opts.require_literal_leading_dot /\ c = "."
        /\ is_sep(IF prev_char = NoChar THEN "/" ELSE prev_char)

\* the closure require_literal of matches_from, prev_char being the cell's value
require_literal(c, prev_char, opts) ==
    \/ (opts.require_literal_separator /\ is_sep(c))
    \/ (opts.require_literal_leading_dot /\ c = "."
        /\ is_sep(IF prev_char = NoChar THEN "/" ELSE prev_char))

\* `let matches = match *token { ... }` for the one-character tokens
TokenMatches(token, c, prev_char, opts) ==
    CASE token.t = "AnyChar" -> ~require_literal(c, prev_char, opts)
      [] token.t = "AnyWithin" ->
            ~require_literal(c, prev_char, opts) /\ in_char_specifiers(token.cs, c, opts)
      [] token.t = "AnyExcept" ->
            ~require_literal(c, prev_char, opts) /\ ~in_char_specifiers(token.cs, c, opts)
      [] token.t = "Char" -> chars_eq(c, token.c, opts.case_sensitive)

\* what the loop of the AnySequence | AnyRecursiveSequence arm returns when the
\* recursive call on the rest of the pattern returned m # SubPatternDoesntMatch
SequenceReturn(m) == m

\* mutant of GuardedStop: the guarded character ends the whole match
GuardedStopEntire == EntirePatternDoesntMatch

\* what the loop of the AnySequence arm returns at a character that must be
\* matched literally (`if require_literal(c) { return SubPatternDoesntMatch; }`)
GuardedStop == SubPatternDoesntMatch

\* what matches_from returns when the candidate is exhausted before the tokens
Exhausted == EntirePatternDoesntMatch

\* what matches_from returns after the last token
AfterTokens(f) == IF f = <<>> THEN Match ELSE SubPatternDoesntMatch

\* matches_from: i is the index of the token the for loop is at; SequenceLoop is
\* the inner `loop` of the AnySequence | AnyRecursiveSequence arm
RECURSIVE matches_from(_, _, _, _, _), SequenceLoop(_, _, _, _, _)
matches_from(tokens, prev_char, f, i, opts) ==
    IF i >= Len(tokens) THEN AfterTokens(f)
    ELSE LET token == At(tokens, i)
         IN  IF token.t \in {"AnySequence", "AnyRecursiveSequence"}
             THEN SequenceLoop(tokens, prev_char, f, i, opts)
             ELSE IF f = <<>> THEN Exhausted
             ELSE IF ~TokenMatches(token, Head(f), prev_char, opts)
                  THEN SubPatternDoesntMatch
                  ELSE matches_from(tokens, Head(f), Tail(f), i + 1, opts)

SequenceLoop(tokens, prev_char, f, i, opts) ==
    LET m == matches_from(tokens, prev_char, f, i + 1, opts)
    IN  IF m # SubPatternDoesntMatch THEN SequenceReturn(m)
        ELSE IF f = <<>> THEN Exhausted
        ELSE IF At(tokens, i).t = "AnySequence" /\ require_literal(Head(f), prev_char, opts)
             THEN GuardedStop
             ELSE SequenceLoop(tokens, Head(f), Tail(f), i, opts)

matches_with(pat, str, opts) == matches_from(pat.tokens, NoChar, str, 0, opts) = Match

\* Pattern::matches
matches(pat, str) == matches_with(pat, str, MatchOptionsNew)

----------------------------------------------------------------------------
(* The file system (the collaborator of the traversal).  A path is the     *)
(* sequence of its names below the scope directory; a name is a string.    *)
(* Path::join appends a name and keeps `.` and `..` as names, as the       *)
(* expectations of tests/glob-std.rs have it (`aaa/../bbb`).  A tree is    *)
(* [dirs, files, unreadable, nonutf8]: the directories and the regular     *)
(* files below the scope, the directories readdir fails on and the entries *)
(* whose name is not valid UTF-8.  The scope itself is the directory <<>>. *)

IsDirNode(F, node) == node = <<>> \/ node \in F.dirs

IsNode(F, node) == IsDirNode(F, node) \/ node \in F.files

NoNode == << <<"<absent>">> >>

Parent(node) == IF node = <<>> THEN <<>> ELSE SubSeq(node, 1, Len(node) - 1)

\* the node a path names, following `.` and `..`, or NoNode
RECURSIVE ResolveFrom(_, _, _)
ResolveFrom(F, node, names) ==
    IF names = <<>> THEN node
    ELSE IF ~IsDirNode(F, node) THEN NoNode
    ELSE LET n == Head(names)
             child == Append(node, n)
         IN  IF n = <<".">> THEN ResolveFrom(F, node, Tail(names))
             ELSE IF n = <<".", ".">> THEN ResolveFrom(F, Parent(node), Tail(names))
             ELSE IF IsNode(F, child) THEN ResolveFrom(F, child, Tail(names))
             ELSE NoNode

Resolve(F, path) == ResolveFrom(F, <<>>, path)

\* Path::exists, Path::is_dir
exists(F, path) == Resolve(F, path) # NoNode
is_dir(F, path) == Resolve(F, path) # NoNode /\ IsDirNode(F, Resolve(F, path))

\* Path::join
join(path, s) == IF s = <<>> THEN path ELSE Append(path, s)

\* Path::filename_str: None for a name that is not UTF-8
filename_str(F, path) ==
    IF Resolve(F, path) \in F.nonutf8
    THEN [some |-> FALSE, s |-> <<>>]
    ELSE [some |-> TRUE, s |-> path[Len(path)]]

\* the byte-wise order of names (Ord for the filename)
RECURSIVE NameLess(_, _)
NameLess(a, b) ==
    IF b = <<>> THEN FALSE
    ELSE IF a = <<>> THEN TRUE
    ELSE IF Head(a) = Head(b) THEN NameLess(Tail(a), Tail(b))
    ELSE Code[Head(a)] < Code[Head(b)]

\* the names of the entries of a directory node
ChildNames(F, node) ==
    {q[Len(q)] : q \in {e \in F.dirs \cup F.files : Len(e) = Len(node) + 1 /\ Parent(e) = node}}

\* children.sort_by(|p1, p2| p2.filename().cmp(&p1.filename())): descending by name
RECURSIVE SortDescending(_)
SortDescending(names) ==
    IF names = {} THEN <<>>
    ELSE LET m == CHOOSE x \in names : \A y \in names : y = x \/ NameLess(y, x)
         IN  <<m>> \o SortDescending(names \ {m})

\* mutant of list_dir_sorted: a directory readdir fails on is listed all the same
list_dir_sorted_any(F, path) ==
    LET node == Resolve(F, path)
    IN  IF node = NoNode \/ ~IsDirNode(F, node)
        THEN [some |-> FALSE, entries |-> <<>>]
        ELSE LET sorted == SortDescending(ChildNames(F, node))
             IN  [some |-> TRUE,
                  entries |-> [k \in 1..Len(sorted) |-> Append(path, sorted[k])]]

\* mutant of list_dir_sorted: every entry of the directory is returned twice
list_dir_sorted_doubled(F, path) ==
    LET node == Resolve(F, path)
    IN  IF node = NoNode \/ ~IsDirNode(F, node) \/ node \in F.unreadable
        THEN [some |-> FALSE, entries |-> <<>>]
        ELSE LET sorted == SortDescending(ChildNames(F, node))
                 once == [k \in 1..Len(sorted) |-> Append(path, sorted[k])]
             IN  [some |-> TRUE, entries |-> once \o once]

\* list_dir_sorted: None when readdir fails (not a directory, unreadable)
list_dir_sorted(F, path) ==
    LET node == Resolve(F, path)
    IN  IF node = NoNode \/ ~IsDirNode(F, node) \/ node \in F.unreadable
        THEN [some |-> FALSE, entries |-> <<>>]
        ELSE LET sorted == SortDescending(ChildNames(F, node))
             IN  [some |-> TRUE,
                  entries |-> [k \in 1..Len(sorted) |-> Append(path, sorted[k])]]

----------------------------------------------------------------------------
(* fill_todo *)

\* mutant of SENTINEL: the marker is the greatest number of components
SentinelInRange == MaxComps

\* `-1 as usize`
SENTINEL == WrapSub(0, 1)

\* mutant of pattern_as_str: no component is taken as a literal string
pattern_as_str_none(pat) == [some |-> FALSE, s |-> <<>>]

\* convert a pattern that's just many Char(_) to a string
pattern_as_str(pat) ==
    IF \A k \in 1..Len(pat.tokens) : pat.tokens[k].t = "Char"
    THEN [some |-> TRUE, s |-> [k \in 1..Len(pat.tokens) |-> pat.tokens[k].c]]
    ELSE [some |-> FALSE, s |-> <<>>]

\* the order in which fill_todo tries the special directory entries
SpecialEntries == << <<".">>, <<".", ".">> >>

\* mutant of LiteralAccepted: the literal component is accepted unchecked
LiteralAcceptedUnchecked(F, special, path, next_path) == TRUE

\* `(special && path.is_dir()) || (!special && next_path.exists())`
LiteralAccepted(F, special, path, next_path) ==
    (special /\ is_dir(F, path)) \/ (~special /\ exists(F, next_path))

RECURSIVE fill_todo(_, _, _, _, _, _)
fill_todo(F, todo, patterns, idx, path, opts) ==
    LET pat == At(patterns, idx)
        str == pattern_as_str(pat)
        add(td, next_path) ==
            IF idx + 1 = Len(patterns)
            THEN Append(td, [path |-> next_path, idx |-> SENTINEL])
            ELSE fill_todo(F, td, patterns, idx + 1, next_path, opts)
        addSpecial(td, special) ==
            IF matches_with(pat, special, opts) THEN add(td, join(path, special)) ELSE td
    IN  IF str.some THEN
            LET special == str.s = <<".">> \/ str.s = <<".", ".">>
                next_path == join(path, str.s)
            IN  IF LiteralAccepted(F, special, path, next_path)
                THEN add(todo, next_path)
                ELSE todo
        ELSE
            LET listed == list_dir_sorted(F, path)
            IN  IF ~listed.some THEN todo
                ELSE LET extended ==
                             todo \o [k \in 1..Len(listed.entries) |->
                                         [path |-> listed.entries[k], idx |-> idx]]
                     IN  IF Len(pat.tokens) > 0 /\ pat.tokens[1] = Char(".")
                         THEN addSpecial(addSpecial(extended, SpecialEntries[1]), SpecialEntries[2])
                         ELSE extended

----------------------------------------------------------------------------
(* glob_with *)

\* s.split_terminator(is_sep): the pieces between separators, a final empty
\* piece dropped
RECURSIVE SplitFrom(_, _)
SplitFrom(s, cur) ==
    IF s = <<>> THEN (IF cur = <<>> THEN <<>> ELSE <<cur>>)
    ELSE IF is_sep(Head(s)) THEN <<cur>> \o SplitFrom(Tail(s), <<>>)
    ELSE SplitFrom(Tail(s), Append(cur, Head(s)))

split_terminator(s) == SplitFrom(s, <<>>)

\* Path::new(pattern).root_path() on POSIX: Some("/") for an absolute pattern
root_len(pat) == IF Len(pat) > 0 /\ is_sep(pat[1]) THEN 1 ELSE 0

\* the values glob_with can end with: Ok(Paths), Err(Error), or an abort
PathsOk(dir_patterns, require_dir, opts, todo) ==
    [kind |-> "Ok", err |-> NoPattern, dir_patterns |-> dir_patterns,
     require_dir |-> require_dir, options |-> opts, todo |-> todo]
PathsOther(kind, err) ==
    [kind |-> kind, err |-> err, dir_patterns |-> <<>>,
     require_dir |-> FALSE, options |-> MatchOptionsNew, todo |-> <<>>]
NoPaths == PathsOther("None", NoPattern)

\* mutant of PathsOptions: the returned Paths holds the default options
PathsOptionsDefault(opts) == MatchOptionsNew

\* the MatchOptions the returned Paths holds
PathsOptions(opts) == opts

\* the per-component patterns: .map(|s| Pattern::new(s).unwrap())
ComponentPatterns(pat) ==
    LET parts == split_terminator(SubSeq(pat, root_len(pat) + 1, Len(pat)))
    IN  [k \in 1..Len(parts) |-> PatternNew(parts[k])]

glob_with(F, pat, opts) ==
    LET compiled == PatternNew(pat)
        dir_patterns == ComponentPatterns(pat)
        require_dir == Len(pat) > 0 /\ is_sep(pat[Len(pat)])
    IN  IF compiled.kind = "Err" THEN PathsOther("Err", compiled)
        ELSE IF compiled.kind = "Panic" THEN PathsOther("Panic", NoPattern)
        ELSE IF \E k \in 1..Len(dir_patterns) : dir_patterns[k].kind # "Ok"
             THEN PathsOther("Panic", NoPattern)     \* unwrap() on an Err, or the abort of Pattern::new
        ELSE PathsOk(dir_patterns, require_dir, PathsOptions(opts),
                     IF Len(dir_patterns) > 0
                     THEN fill_todo(F, <<>>, dir_patterns, 0, <<>>, opts)
                     ELSE <<>>)

----------------------------------------------------------------------------
(* Paths::next *)

\* mutant of ReturnNone: next() returns None and leaves an entry on the stack
ReturnNoneLeavesEntry(todo) ==
    [todo |-> << [path |-> <<>>, idx |-> SENTINEL] >>, some |-> FALSE, path |-> <<>>]

\* mutant of SkipRecursive: consecutive recursive patterns are not skipped
SkipRecursiveNone(dir_patterns, next) == next

\* while next < len && dir_patterns[next].is_recursive { next += 1 }
RECURSIVE SkipRecursive(_, _)
SkipRecursive(dir_patterns, next) ==
    IF next < Len(dir_patterns) /\ At(dir_patterns, next).is_recursive
    THEN SkipRecursive(dir_patterns, next + 1)
    ELSE next

ReturnNone(todo) == [todo |-> todo, some |-> FALSE, path |-> <<>>]
ReturnSome(todo, path) == [todo |-> todo, some |-> TRUE, path |-> path]

\* the index fill_todo is called with when the pattern after a `**` run matched
\* the popped path (next_idx of the source)
MatchedNextIdx(next) == next + 1

\* the loop of next(): the stack it leaves and the value it returns
RECURSIVE NextLoop(_, _, _)
NextLoop(F, P, todo) ==
    IF Len(P.dir_patterns) = 0 \/ todo = <<>> THEN ReturnNone(todo)
    ELSE
    LET len == Len(P.dir_patterns)
        path == todo[Len(todo)].path
        idx == todo[Len(todo)].idx
        rest == SubSeq(todo, 1, Len(todo) - 1)
        fill(i) == fill_todo(F, rest, P.dir_patterns, i, path, P.options)
        name == filename_str(F, path)
    IN  IF idx = SENTINEL THEN
            IF P.require_dir /\ ~is_dir(F, path) THEN NextLoop(F, P, rest)
            ELSE ReturnSome(rest, path)
        ELSE
        LET pat == At(P.dir_patterns, idx)
            is_recursive == pat.is_recursive
            is_last == idx = len - 1
        IN  IF is_recursive /\ ~is_last THEN
                LET next == SkipRecursive(P.dir_patterns, idx + 1)
                IN  IF next = len THEN ReturnSome(fill(next - 1), path)
                    ELSE IF ~name.some THEN NextLoop(F, P, rest)
                    ELSE
                    LET is_match == matches_with(At(P.dir_patterns, next), name.s, P.options)
                        current_idx == IF is_match THEN next ELSE next - 1
                        next_idx == IF is_match THEN MatchedNextIdx(next) ELSE next - 1
                    IN  IF current_idx = len - 1 THEN
                            IF ~P.require_dir \/ is_dir(F, path)
                            THEN ReturnSome(rest, path)
                            ELSE NextLoop(F, P, rest)
                        ELSE NextLoop(F, P, fill(next_idx))
            ELSE IF is_recursive /\ is_last THEN ReturnSome(fill(idx), path)
            ELSE IF ~name.some THEN NextLoop(F, P, rest)
            ELSE IF matches_with(pat, name.s, P.options) THEN
                IF idx = len - 1 THEN
                    IF ~P.require_dir \/ is_dir(F, path)
                    THEN ReturnSome(rest, path)
                    ELSE NextLoop(F, P, rest)
                ELSE NextLoop(F, P, fill(idx + 1))
            ELSE NextLoop(F, P, rest)

----------------------------------------------------------------------------
(* Inputs of the runs *)

\* the characters of the raw pattern strings handed to Pattern::new
NewAlphabet == {"a", "/", "*", "[", "]", "!"}

NewInputs == SeqsUpTo(NewAlphabet, MaxPatLen)

\* the pieces the patterns of the matcher runs are written with
MatchPieces ==
    { <<"A">>, <<"/">>, <<".">>, <<"*">>, <<"?">>, <<"*", "*", "/">>,
      <<"[", "!", "a", "]">>, <<"[", ".", "/", "]">> }

MatchSources == {Concat(ps) : ps \in SeqsUpTo(MatchPieces, MaxPieces)}

\* the compiled patterns of the matcher runs
MatchPatterns == {PatternNew(p) : p \in {q \in MatchSources : PatternNew(q).kind = "Ok"}}

FileAlphabet == {"a", "/", "."}

Candidates == SeqsUpTo(FileAlphabet, MaxFileLen)

EmptyTree == [dirs |-> {}, files |-> {}, unreadable |-> {}, nonutf8 |-> {}]

\* Option<Path>::None, the value of `last` before any call of next()
NothingYet == [some |-> FALSE, path |-> <<>>]

\* the names of the entries of the trees
na == <<"a">>
nb == <<"b">>
nda == <<".", "a">>

\* a/{a/{b}, b/{a, b}}, b, .a/{b}  (a, a/a, a/b, .a are directories)
TreeA ==
    [dirs |-> {<<na>>, <<na, na>>, <<na, nb>>, <<nda>>},
     files |-> {<<nb>>, <<na, na, nb>>, <<na, nb, na>>, <<na, nb, nb>>, <<nda, nb>>},
     unreadable |-> {}, nonutf8 |-> {}]

\* a, b/{a/{a}, b/{}, .a}  (b, b/a, b/b are directories)
TreeB ==
    [dirs |-> {<<nb>>, <<nb, na>>, <<nb, nb>>},
     files |-> {<<na>>, <<nb, na, na>>, <<nb, nda>>},
     unreadable |-> {}, nonutf8 |-> {}]

Trees == {TreeA, TreeB}

\* the components the traversal patterns are written with
GlobComps ==
    { <<"a">>, <<"b">>, <<"*">>, <<"*", "*">>, <<".", "*">>, <<".", ".">> }

\* components joined by '/'
RECURSIVE JoinComps(_)
JoinComps(cs) ==
    IF cs = <<>> THEN <<>>
    ELSE IF Len(cs) = 1 THEN cs[1]
    ELSE cs[1] \o <<"/">> \o JoinComps(Tail(cs))

\* the traversal patterns: up to MaxComps components, with or without a
\* trailing separator
GlobInputs ==
    {JoinComps(cs) \o tail : cs \in SeqsUpTo(GlobComps, MaxComps), tail \in {<<>>, <<"/">>}}

\* the characters of the raw strings handed to glob_with
RawAlphabet == {"a", "/", "*", "[", "]"}

GlobRawInputs == SeqsUpTo(RawAlphabet, MaxPatLen)

----------------------------------------------------------------------------
(* Pattern::new on a raw string *)

InitNew ==
    /\ mode = "new" /\ pc = "start"
    /\ src \in NewInputs
    /\ escaped = <<>>
    /\ pattern = NoPattern
    /\ file = <<>> /\ options = MatchOptionsNew /\ result = "None"
    /\ fs = EmptyTree /\ paths = NoPaths /\ yielded = <<>> /\ last = NothingYet

\* let pattern = Pattern::new(src)
New ==
    /\ mode = "new" /\ pc = "start"
    /\ pattern' = PatternNew(src)
    /\ pc' = "done"
    /\ UNCHANGED <<mode, src, escaped, file, options, result, fs, paths, yielded, last>>

NextNew == New

SpecNew == InitNew /\ [][NextNew]_vars

----------------------------------------------------------------------------
(* Pattern::matches_with on a compiled pattern *)

InitMatch ==
    /\ mode = "match" /\ pc = "start"
    /\ pattern \in MatchPatterns
    /\ src = pattern.original
    /\ escaped = <<>>
    /\ options \in AllOptions
    /\ file = <<>> /\ result = "None"
    /\ fs = EmptyTree /\ paths = NoPaths /\ yielded = <<>> /\ last = NothingYet

\* let result = pattern.matches_with(str, &options)
MatchesWith ==
    /\ mode = "match" /\ pc = "start"
    /\ \E str \in Candidates :
        /\ file' = str
        /\ result' = matches_with(pattern, str, options)
    /\ pc' = "done"
    /\ UNCHANGED <<mode, src, escaped, pattern, options, fs, paths, yielded, last>>

NextMatch == MatchesWith

SpecMatch == InitMatch /\ [][NextMatch]_vars

----------------------------------------------------------------------------
(* Pattern::escape, then Pattern::new, then Pattern::matches *)

\* the characters of the strings handed to Pattern::escape and matched against it
EscAlphabet == {"a", "?", "*", "[", "]", "!"}

EscInputs == SeqsUpTo(EscAlphabet, MaxEscLen)

InitEscape ==
    /\ mode = "escape" /\ pc = "start"
    /\ src \in EscInputs
    /\ escaped = <<>>
    /\ pattern = NoPattern
    /\ file = <<>> /\ options = MatchOptionsNew /\ result = "None"
    /\ fs = EmptyTree /\ paths = NoPaths /\ yielded = <<>> /\ last = NothingYet

\* let escaped = Pattern::escape(src)
DoEscape ==
    /\ mode = "escape" /\ pc = "start"
    /\ escaped' = Escape(src)
    /\ pc' = "escaped"
    /\ UNCHANGED <<mode, src, pattern, file, options, result, fs, paths, yielded, last>>

\* let pattern = Pattern::new(escaped)
NewEscaped ==
    /\ mode = "escape" /\ pc = "escaped"
    /\ pattern' = PatternNew(escaped)
    /\ pc' = "compiled"
    /\ UNCHANGED <<mode, src, escaped, file, options, result, fs, paths, yielded, last>>

\* let result = pattern.unwrap().matches(str)
MatchesEscaped ==
    /\ mode = "escape" /\ pc = "compiled"
    /\ pattern.kind = "Ok"
    /\ \E str \in EscInputs :
        /\ file' = str
        /\ result' = matches(pattern, str)
    /\ pc' = "done"
    /\ UNCHANGED <<mode, src, escaped, pattern, options, fs, paths, yielded, last>>

NextEscape == DoEscape \/ NewEscaped \/ MatchesEscaped

SpecEscape == InitEscape /\ [][NextEscape]_vars

----------------------------------------------------------------------------
(* glob_with, then next() until it returns None, and again after that *)

InitGlobWith(inputs, trees, opts) ==
    /\ mode = "glob" /\ pc = "start"
    /\ src \in inputs
    /\ fs \in trees
    /\ options \in opts
    /\ escaped = <<>> /\ pattern = NoPattern /\ file = <<>> /\ result = "None"
    /\ paths = NoPaths /\ yielded = <<>> /\ last = NothingYet

\* let paths = glob_with(src, &options)
GlobWith ==
    /\ mode = "glob" /\ pc = "start"
    /\ paths' = glob_with(fs, src, options)
    /\ pc' = IF paths'.kind = "Ok" THEN "iter" ELSE "failed"
    /\ UNCHANGED <<mode, src, escaped, pattern, file, options, result, fs, yielded, last>>

\* let last = paths.next()
PathsNext ==
    /\ mode = "glob" /\ pc \in {"iter", "done"}
    /\ LET r == NextLoop(fs, paths, paths.todo)
       IN  /\ paths' = [paths EXCEPT !.todo = r.todo]
           /\ last' = [some |-> r.some, path |-> r.path]
           /\ yielded' = IF r.some THEN Append(yielded, r.path) ELSE yielded
           /\ pc' = IF r.some THEN "iter" ELSE "done"
    /\ UNCHANGED <<mode, src, escaped, pattern, file, options, result, fs>>

NextGlob == GlobWith \/ PathsNext

\* traversals of the patterns written with GlobComps
InitGlob == InitGlobWith(GlobInputs, Trees, AllOptions)

SpecGlob == InitGlob /\ [][NextGlob]_vars

\* traversals of raw pattern strings
InitGlobRaw == InitGlobWith(GlobRawInputs, {TreeA}, {MatchOptionsNew})

SpecGlobRaw == InitGlobRaw /\ [][NextGlob]_vars

\* the components of the traversal patterns that differ from the entry names
\* by case only: a literal one and a class
GlobCaseComps == { <<"A">>, <<"a">>, <<"[", "A", "]">>, <<"*">> }

GlobCaseInputs ==
    {JoinComps(cs) \o tail : cs \in SeqsUpTo(GlobCaseComps, MaxComps), tail \in {<<>>, <<"/">>}}

\* traversals of patterns with upper-case components
InitGlobCase == InitGlobWith(GlobCaseInputs, Trees, AllOptions)

SpecGlobCase == InitGlobCase /\ [][NextGlob]_vars

\* the directories of TreeA that readdir may fail on (the scope among them)
FailDirs == {<<>>, <<na>>, <<na, nb>>, <<nda>>}

\* TreeA with some directories unreadable
FailTrees == {[TreeA EXCEPT !.unreadable = U] : U \in (SUBSET FailDirs) \ {{}}}

\* traversals of trees in which listing some directory fails
InitGlobFail == InitGlobWith(GlobInputs, FailTrees, {MatchOptionsNew})

SpecGlobFail == InitGlobFail /\ [][NextGlob]_vars

----------------------------------------------------------------------------
(* Reference semantics of matching: exhaustive search over every way of    *)
(* splitting the candidate into one piece per token.                       *)

\* the character before offset pos of str, '/' standing for the start
RefPrev(str, pos) == IF pos = 0 THEN "/" ELSE At(str, pos - 1)

\* the literal guard rejects the character at offset pos of str
RefGuard(str, pos, opts) ==
    \/ opts.require_literal_separator /\ At(str, pos) = "/"
    \/ opts.require_literal_leading_dot /\ At(str, pos) = "." /\ RefPrev(str, pos) = "/"

\* a one-character token consumes the character at offset pos of str
RefConsumes(token, str, pos, opts) ==
    LET c == At(str, pos)
    IN  CASE token.t = "Char" -> chars_eq(c, token.c, opts.case_sensitive)
          [] token.t = "AnyChar" -> ~RefGuard(str, pos, opts)
          [] token.t = "AnyWithin" ->
                in_char_specifiers(token.cs, c, opts) /\ ~RefGuard(str, pos, opts)
          [] token.t = "AnyExcept" ->
                ~in_char_specifiers(token.cs, c, opts) /\ ~RefGuard(str, pos, opts)

\* tokens i.. can be laid over str from offset pos to its end
RECURSIVE RefSplits(_, _, _, _, _)
RefSplits(tokens, i, str, pos, opts) ==
    IF i = Len(tokens) THEN pos = Len(str)
    ELSE LET token == At(tokens, i)
         IN  CASE token.t = "AnySequence" ->
                    \E k \in pos..Len(str) :
                        /\ \A j \in pos..(k - 1) : ~RefGuard(str, j, opts)
                        /\ RefSplits(tokens, i + 1, str, k, opts)
               [] token.t = "AnyRecursiveSequence" ->
                    \E k \in pos..Len(str) : RefSplits(tokens, i + 1, str, k, opts)
               [] OTHER ->
                    /\ pos < Len(str)
                    /\ RefConsumes(token, str, pos, opts)
                    /\ RefSplits(tokens, i + 1, str, pos + 1, opts)

IsSequenceToken(token) == token.t \in {"AnySequence", "AnyRecursiveSequence"}

\* C1: matches_with returns true iff the candidate can be split into consecutive
\* pieces, one per token in order, each piece consumed by its token under the
\* options, the whole candidate being consumed; the EntirePatternDoesntMatch
\* short-circuit gives the result of the exhaustive search.
C1_MatchesIffSplit ==
    (mode = "match" /\ pc = "done") =>
        (result = RefSplits(pattern.tokens, 0, file, 0, options))

\* C1 witness: a pattern with two sequence tokens whose match was cut short by
\* EntirePatternDoesntMatch on a candidate with a guarded separator
C1_Witness ==
    /\ mode = "match" /\ pc = "done"
    /\ Cardinality({k \in 1..Len(pattern.tokens) : IsSequenceToken(pattern.tokens[k])}) >= 2
    /\ options.require_literal_separator
    /\ Len(file) >= 2 /\ \E k \in 1..Len(file) : file[k] = "/"
    /\ matches_from(pattern.tokens, NoChar, file, 0, options) = EntirePatternDoesntMatch
    /\ result = FALSE

----------------------------------------------------------------------------
(* Claims about Pattern::escape *)

\* C6: for every string s, Pattern::new(Pattern::escape(s)) succeeds and, under
\* the default MatchOptions, the pattern matches a candidate t iff t = s.
C6_EscapeRoundTrip ==
    /\ (mode = "escape" /\ pc = "compiled") => pattern.kind = "Ok"
    /\ (mode = "escape" /\ pc = "done") => (result = (file = src))

\* C6 witness: a string with a metacharacter was escaped, compiled and matched
\* against itself
C6_Witness ==
    /\ mode = "escape" /\ pc = "done"
    /\ \E k \in 1..Len(src) : src[k] \in EscapedChars
    /\ Len(escaped) > Len(src)
    /\ file = src /\ result = TRUE

----------------------------------------------------------------------------
(* Claims about Pattern::new.  The reference below describes the pattern   *)
(* syntax by its constructs, independently of the compiler's loop.         *)

\* the length of the maximal run of `*` that starts at offset k of p
RECURSIVE RunLength(_, _)
RunLength(p, k) == IF k < Len(p) /\ At(p, k) = "*" THEN 1 + RunLength(p, k + 1) ELSE 0

\* the offsets at which a maximal run of `*` starts
RunStarts(p) ==
    {k \in 0..(Len(p) - 1) : At(p, k) = "*" /\ (k = 0 \/ At(p, k - 1) # "*")}

PrecededOk(p, k) == k = 0 \/ At(p, k - 1) = "/"
FollowedOk(p, k, n) == k + n = Len(p) \/ At(p, k + n) = "/"

\* the rules of a run of n `*` at offset k
RunOk(p, k, n) == n = 1 \/ (n = 2 /\ PrecededOk(p, k) /\ FollowedOk(p, k, n))

HasBracket(p) == \E k \in 1..Len(p) : p[k] = "["

CountTokens(tokens, t) == Cardinality({k \in 1..Len(tokens) : tokens[k].t = t})

\* the offset of the `]` that closes the class opened at k, or -1: the first
\* `]` that lies at least one member after the `[` (or after the `[!`)
ClassClose(p, k) ==
    LET first == IF k + 1 < Len(p) /\ At(p, k + 1) = "!" THEN k + 2 ELSE k + 1
        closes == {j \in (first + 1)..(Len(p) - 1) : At(p, j) = "]"}
    IN  IF closes = {} THEN -1 ELSE CHOOSE j \in closes : \A j2 \in closes : j <= j2

\* the first offending construct from offset k on, in scan order:
\* [bad |-> FALSE] or [bad |-> TRUE, at |-> its offset, n |-> its run length (0 for a class)]
RECURSIVE RefFirstBad(_, _)
RefFirstBad(p, k) ==
    IF k >= Len(p) THEN [bad |-> FALSE, at |-> 0, n |-> 0]
    ELSE IF At(p, k) = "*" THEN
        LET n == RunLength(p, k)
        IN  IF ~RunOk(p, k, n) THEN [bad |-> TRUE, at |-> k, n |-> n]
            ELSE IF n = 2 /\ k + 2 < Len(p) THEN RefFirstBad(p, k + 3)
            ELSE RefFirstBad(p, k + n)
    ELSE IF At(p, k) = "[" THEN
        IF ClassClose(p, k) = -1 THEN [bad |-> TRUE, at |-> k, n |-> 0]
        ELSE RefFirstBad(p, ClassClose(p, k) + 1)
    ELSE RefFirstBad(p, k + 1)

IsWildcardError(pat) ==
    pat.kind = "Err" /\ pat.msg \in {ERROR_WILDCARDS, ERROR_RECURSIVE_WILDCARDS}

\* C7: a run of one `*` compiles to AnySequence, a run of two is accepted iff it
\* is preceded by the start or a separator and followed by the end or a
\* separator, a longer run is rejected; a pattern without `[` is accepted iff
\* each of its runs satisfies these rules.
C7_StarRuns ==
    (mode = "new" /\ pc = "done" /\ ~HasBracket(src)) =>
        /\ pattern.kind = "Ok" <=> \A k \in RunStarts(src) : RunOk(src, k, RunLength(src, k))
        /\ pattern.kind = "Ok" =>
            /\ CountTokens(pattern.tokens, "AnySequence")
                 = Cardinality({k \in RunStarts(src) : RunLength(src, k) = 1})
            /\ pattern.is_recursive <=> \E k \in RunStarts(src) : RunLength(src, k) = 2

\* C7 witness: an accepted pattern with a `*` and a `**` after a separator
C7_Witness ==
    /\ mode = "new" /\ pc = "done" /\ ~HasBracket(src)
    /\ pattern.kind = "Ok"
    /\ \E k \in RunStarts(src) : RunLength(src, k) = 1
    /\ \E k \in RunStarts(src) : RunLength(src, k) = 2 /\ k > 0

\* C8 (as claimed): an unclosed `[` at offset k gives Err with pos = k and the
\* message "invalid range pattern", whatever the length of the pattern;
\* Pattern::new never aborts.
C8_UnclosedBracketIsErr ==
    (mode = "new" /\ pc = "done") =>
        /\ pattern.kind # "Panic"
        /\ LET b == RefFirstBad(src, 0)
           IN  (b.bad /\ b.n = 0) => pattern = Err(b.at, ERROR_INVALID_RANGE)

\* C9: a rejected `*` run that starts at k reports pos = k + 2 when it is longer
\* than two or is a validly preceded `**` followed by a non-separator, and
\* pos = k - 1 when it is a `**` not preceded by the start or a separator; the
\* error is that of the first offending construct in scan order, and every
\* reported pos is an offset of the pattern.
C9_ErrorPositions ==
    (mode = "new" /\ pc = "done" /\ pattern.kind = "Err") =>
        LET b == RefFirstBad(src, 0)
        IN  /\ 0 <= pattern.pos /\ pattern.pos < Len(src)
            /\ b.bad
            /\ IsWildcardError(pattern) <=> b.n > 0
            /\ b.n > 2 => pattern = Err(b.at + 2, ERROR_WILDCARDS)
            /\ (b.n = 2 /\ ~PrecededOk(src, b.at)) =>
                    pattern = Err(b.at - 1, ERROR_RECURSIVE_WILDCARDS)
            /\ (b.n = 2 /\ PrecededOk(src, b.at)) =>
                    pattern = Err(b.at + 2, ERROR_RECURSIVE_WILDCARDS)
            /\ b.n = 0 => pattern = Err(b.at, ERROR_INVALID_RANGE)

\* C9 witness: a `**` that is neither validly preceded nor validly followed,
\* after an earlier valid construct
C9_Witness ==
    /\ mode = "new" /\ pc = "done" /\ pattern.kind = "Err"
    /\ LET b == RefFirstBad(src, 0)
       IN  b.bad /\ b.n = 2 /\ b.at >= 2 /\ ~PrecededOk(src, b.at) /\ ~FollowedOk(src, b.at, 2)
    /\ pattern.pos = RefFirstBad(src, 0).at - 1

\* C10 (as claimed): the reported position of a wildcard error is the offset of a
\* `*` that belongs to the first invalid run.
C10_PosIsStarOfRun ==
    (mode = "new" /\ pc = "done" /\ IsWildcardError(pattern)) =>
        LET b == RefFirstBad(src, 0)
        IN  /\ At(src, pattern.pos) = "*"
            /\ b.at <= pattern.pos /\ pattern.pos < b.at + b.n

\* C10 (amended): the reported position of a wildcard error is the third `*` of
\* the first invalid run when that run is longer than two; otherwise it is the
\* character next to the `**` (right before or right after it) that is neither a
\* `*` nor a separator.
C10_PosIsThirdStarOrNeighbour ==
    (mode = "new" /\ pc = "done" /\ IsWildcardError(pattern)) =>
        LET b == RefFirstBad(src, 0)
            c == At(src, pattern.pos)
        IN  IF b.n > 2
            THEN c = "*" /\ pattern.pos = b.at + 2
            ELSE /\ c # "*" /\ c # "/"
                 /\ pattern.pos \in {b.at - 1, b.at + b.n}

\* C10 witness: a rejected `**` whose reported position is the character after it
C10_Witness ==
    /\ mode = "new" /\ pc = "done" /\ IsWildcardError(pattern)
    /\ RefFirstBad(src, 0).n = 2
    /\ pattern.pos = RefFirstBad(src, 0).at + 2
    /\ At(src, pattern.pos) = "a"

----------------------------------------------------------------------------
(* Claims about the traversal.  The reference below says when a path       *)
(* satisfies a traversal pattern, independently of the work stack.         *)

\* the separator-delimited components of a traversal pattern
Components(pat) == split_terminator(SubSeq(pat, root_len(pat) + 1, Len(pat)))

IsRecursiveComponent(comp) == comp = <<"*", "*">>

\* names j.. can be aligned with components i..: every non-recursive component
\* matches its name, every `**` covers zero or more consecutive names
RECURSIVE RefAligned(_, _, _, _, _)
RefAligned(comps, i, names, j, opts) ==
    IF i = Len(comps) THEN j = Len(names)
    ELSE IF IsRecursiveComponent(At(comps, i))
         THEN \E k \in j..Len(names) : RefAligned(comps, i + 1, names, k, opts)
         ELSE /\ j < Len(names)
              /\ matches_with(PatternNew(At(comps, i)), At(names, j), opts)
              /\ RefAligned(comps, i + 1, names, j + 1, opts)

Satisfies(pat, names, opts) == RefAligned(Components(pat), 0, names, 0, opts)

Yielded == {yielded[k] : k \in 1..Len(yielded)}

HasRecursiveThenMore(comps) ==
    \E i \in 1..(Len(comps) - 1) :
        IsRecursiveComponent(comps[i]) /\ ~IsRecursiveComponent(comps[Len(comps)])

\* C3 (as claimed): for a pattern with a `**` component followed by further
\* components, a finished traversal has yielded every existing path that
\* satisfies the pattern with `**` standing for zero or more directory levels.
C3_RecursiveYieldsEveryLevel ==
    (mode = "glob" /\ pc = "done" /\ HasRecursiveThenMore(Components(src))) =>
        \A node \in fs.dirs \cup fs.files :
            (Satisfies(src, node, options) /\ (paths.require_dir => node \in fs.dirs))
                => node \in Yielded

\* the order of paths: component by component, by name; a proper prefix first
RECURSIVE PathLess(_, _)
PathLess(p, q) ==
    IF q = <<>> THEN FALSE
    ELSE IF p = <<>> THEN TRUE
    ELSE IF Head(p) = Head(q) THEN PathLess(Tail(p), Tail(q))
    ELSE NameLess(Head(p), Head(q))

\* C4 (as claimed): of any two paths one traversal yields, the one that sorts
\* first is yielded first.
C4_YieldedAscending ==
    mode = "glob" =>
        \A i, j \in 1..Len(yielded) : i < j => PathLess(yielded[i], yielded[j])

\* C5 (as claimed): glob_with fails exactly when Pattern::new fails on the whole
\* pattern string, with that error; for every string Pattern::new accepts it
\* returns an iterator.
C5_GlobFailsIffNewFails ==
    (mode = "glob" /\ pc # "start") =>
        /\ paths.kind = "Err" <=> PatternNew(src).kind = "Err"
        /\ paths.kind = "Err" => paths.err = PatternNew(src)
        /\ PatternNew(src).kind = "Ok" => paths.kind = "Ok"

----------------------------------------------------------------------------
(* Claims about the matcher's treatment of `**`, separators and leading dots *)

\* the pattern ends with a `**` that no separator follows
EndsWithOpenRecursive(pat) ==
    /\ Len(pat.tokens) > 0
    /\ pat.tokens[Len(pat.tokens)].t = "AnyRecursiveSequence"
    /\ pat.original[Len(pat.original)] = "*"

\* tokens i.. can be laid over str from offset pos to its end when a `**`
\* stands for whole components only: the text a `**/` consumes is empty or
\* ends with a separator; a `**` that ends the pattern (open) consumes the
\* rest of the candidate
RECURSIVE RefWholeSplits(_, _, _, _, _, _)
RefWholeSplits(tokens, open, i, str, pos, opts) ==
    IF i = Len(tokens) THEN pos = Len(str)
    ELSE LET token == At(tokens, i)
         IN  CASE token.t = "AnySequence" ->
                    \E k \in pos..Len(str) :
                        /\ \A j \in pos..(k - 1) : ~RefGuard(str, j, opts)
                        /\ RefWholeSplits(tokens, open, i + 1, str, k, opts)
               [] token.t = "AnyRecursiveSequence" ->
                    \E k \in pos..Len(str) :
                        /\ \/ k = pos
                           \/ At(str, k - 1) = "/"
                           \/ open /\ i = Len(tokens) - 1
                        /\ RefWholeSplits(tokens, open, i + 1, str, k, opts)
               [] OTHER ->
                    /\ pos < Len(str)
                    /\ RefConsumes(token, str, pos, opts)
                    /\ RefWholeSplits(tokens, open, i + 1, str, pos + 1, opts)

\* C11 (as claimed): a `**` stands only for zero or more complete path
\* components: a pattern matches a candidate only if the candidate can be split
\* so that the text every `**` consumes is a sequence of whole components.
C11_RecursiveConsumesWholeComponents ==
    (mode = "match" /\ pc = "done" /\ result = TRUE) =>
        RefWholeSplits(pattern.tokens, EndsWithOpenRecursive(pattern), 0, file, 0, options)

\* the options with require_literal_separator and require_literal_leading_dot off
Unguarded(opts) == MatchOptions(opts.case_sensitive, FALSE, FALSE)

\* tokens i.. can be laid over str from offset pos to its end, ignoring both
\* literal options, so that every separator of str is consumed by a Char('/')
\* or by an AnyRecursiveSequence
RECURSIVE RefSepSplits(_, _, _, _, _)
RefSepSplits(tokens, i, str, pos, opts) ==
    IF i = Len(tokens) THEN pos = Len(str)
    ELSE LET token == At(tokens, i)
         IN  CASE token.t = "AnySequence" ->
                    \E k \in pos..Len(str) :
                        /\ \A j \in pos..(k - 1) : At(str, j) # "/"
                        /\ RefSepSplits(tokens, i + 1, str, k, opts)
               [] token.t = "AnyRecursiveSequence" ->
                    \E k \in pos..Len(str) : RefSepSplits(tokens, i + 1, str, k, opts)
               [] OTHER ->
                    /\ pos < Len(str)
                    /\ RefConsumes(token, str, pos, Unguarded(opts))
                    /\ At(str, pos) = "/" => token = Char("/")
                    /\ RefSepSplits(tokens, i + 1, str, pos + 1, opts)

\* the patterns `?`, `*` and a class that lists the separator
SeparatorWildcards == { <<"?">>, <<"*">>, <<"[", ".", "/", "]">> }

\* C12: with require_literal_separator, a pattern matches only if every
\* separator of the candidate is consumed by a literal separator or by a `**`
\* (`?`, `*` and classes, even one listing the separator, never consume one);
\* without the option `?`, `*` and `[./]` do match a separator.
C12_SeparatorsNeedLiteral ==
    (mode = "match" /\ pc = "done") =>
        /\ (options.require_literal_separator /\ result = TRUE) =>
                RefSepSplits(pattern.tokens, 0, file, 0, options)
        /\ (~options.require_literal_separator /\ src \in SeparatorWildcards /\ file = <<"/">>) =>
                result = TRUE

\* C12 witness: under require_literal_separator a candidate with a separator was
\* rejected by a pattern that accepts it without the option
C12_Witness ==
    /\ mode = "match" /\ pc = "done"
    /\ options.require_literal_separator
    /\ \E k \in 1..Len(file) : file[k] = "/"
    /\ \E k \in 1..Len(pattern.tokens) : pattern.tokens[k].t \in {"AnySequence", "AnyChar", "AnyWithin"}
    /\ result = FALSE
    /\ matches_with(pattern, file, [options EXCEPT !.require_literal_separator = FALSE])

\* a dot of str that starts a component
LeadingDot(str, pos) == At(str, pos) = "." /\ RefPrev(str, pos) = "/"

\* tokens i.. can be laid over str from offset pos to its end, ignoring both
\* literal options, so that every leading dot of str is consumed by a Char('.')
RECURSIVE RefDotSplits(_, _, _, _, _)
RefDotSplits(tokens, i, str, pos, opts) ==
    IF i = Len(tokens) THEN pos = Len(str)
    ELSE LET token == At(tokens, i)
         IN  IF IsSequenceToken(token)
             THEN \E k \in pos..Len(str) :
                        /\ \A j \in pos..(k - 1) : ~LeadingDot(str, j)
                        /\ RefDotSplits(tokens, i + 1, str, k, opts)
             ELSE /\ pos < Len(str)
                  /\ RefConsumes(token, str, pos, Unguarded(opts))
                  /\ LeadingDot(str, pos) => token = Char(".")
                  /\ RefDotSplits(tokens, i + 1, str, pos + 1, opts)

\* C13 (as claimed): with require_literal_leading_dot, a pattern matches only if
\* every dot that starts a component of the candidate is consumed by a literal
\* `.`; no wildcard token (`*`, `?`, a class, `**`) consumes such a dot.
C13_LeadingDotsNeedLiteral ==
    (mode = "match" /\ pc = "done" /\ options.require_literal_leading_dot /\ result = TRUE) =>
        RefDotSplits(pattern.tokens, 0, file, 0, options)

----------------------------------------------------------------------------
(* Claims about the options of a traversal *)

WithLiteralSeparator(P) == [P EXCEPT !.options.require_literal_separator = TRUE]

----------------------------------------------------------------------------
(* Claims about what a traversal yields *)

\* C15 (as claimed): if the pattern string ends with a separator, every path the
\* traversal yields is a directory, whatever the final component is.
C15_TrailingSeparatorYieldsDirectories ==
    (mode = "glob" /\ last.some /\ Len(src) > 0 /\ src[Len(src)] = "/") =>
        is_dir(fs, last.path)

\* the traversal pattern ends with a `**` component and no separator
EndsWithRecursiveComponent(pat) ==
    /\ Len(Components(pat)) > 0
    /\ IsRecursiveComponent(Components(pat)[Len(Components(pat))])
    /\ pat[Len(pat)] # "/"

\* C16 (as claimed): a traversal whose last component is `**`, with no trailing
\* separator, yields directories only, and a finished one has yielded every
\* directory below a base directory (a directory whose parent satisfies the
\* pattern).
C16_FinalRecursiveYieldsDirectoriesOnly ==
    (mode = "glob" /\ EndsWithRecursiveComponent(src)) =>
        /\ last.some => is_dir(fs, last.path)
        /\ pc = "done" =>
             \A node \in fs.dirs : Satisfies(src, Parent(node), options) => node \in Yielded

\* glob_with(..).unwrap().collect(): the paths next() returns until it returns None
RECURSIVE CollectFrom(_, _, _)
CollectFrom(F, P, todo) ==
    LET r == NextLoop(F, P, todo)
    IN  IF r.some THEN <<r.path>> \o CollectFrom(F, P, r.todo) ELSE <<>>

glob_vec(F, pat, opts) ==
    LET P == glob_with(F, pat, opts)
    IN  IF P.kind = "Ok" THEN CollectFrom(F, P, P.todo) ELSE <<>>

\* the components with every run of `**` components replaced by one `**`
RECURSIVE CollapseRuns(_)
CollapseRuns(comps) ==
    IF Len(comps) < 2 THEN comps
    ELSE IF IsRecursiveComponent(comps[1]) /\ IsRecursiveComponent(comps[2])
         THEN CollapseRuns(Tail(comps))
         ELSE <<comps[1]>> \o CollapseRuns(Tail(comps))

HasRecursiveRun(pat) == CollapseRuns(Components(pat)) # Components(pat)

\* the pattern with every run of `**` components replaced by one `**`
Collapsed(pat) ==
    JoinComps(CollapseRuns(Components(pat)))
        \o (IF Len(pat) > 0 /\ pat[Len(pat)] = "/" THEN <<"/">> ELSE <<>>)

\* C17: a pattern with two or more consecutive `**` components yields exactly
\* the sequence of paths the pattern with a single `**` in their place yields,
\* whether the run ends the pattern or other components follow it.
C17_RecursiveRunsCollapse ==
    (mode = "glob" /\ pc = "done" /\ HasRecursiveRun(src)) =>
        yielded = glob_vec(fs, Collapsed(src), options)

\* C17 witness: a finished traversal of a pattern in which a component follows
\* `**/**` has yielded a path
C17_Witness ==
    /\ mode = "glob" /\ pc = "done" /\ HasRecursiveRun(src)
    /\ ~IsRecursiveComponent(Components(src)[Len(Components(src))])
    /\ Len(yielded) > 0

\* C18 (as claimed): the traversal accepts an existing entry for a component
\* whenever matches_with(component, entry name, options) is true, whether the
\* component has a wildcard or only literal characters: a finished traversal of
\* a pattern without `**` has yielded every existing path whose names the
\* components match one by one.
C18_LiteralComponentsFoldCase ==
    (mode = "glob" /\ pc = "done") =>
        \A node \in fs.dirs \cup fs.files :
            (Satisfies(src, node, options) /\ (paths.require_dir => node \in fs.dirs))
                => node \in Yielded

\* the name starts with a dot
IsHidden(name) == Len(name) > 0 /\ name[1] = "."

\* names j.. can be aligned with components i.. so that every name that starts
\* with a dot is aligned with a non-recursive component that starts with a
\* literal dot (a `**` covers no such name)
RECURSIVE RefAlignedHidden(_, _, _, _, _)
RefAlignedHidden(comps, i, names, j, opts) ==
    IF i = Len(comps) THEN j = Len(names)
    ELSE IF IsRecursiveComponent(At(comps, i))
         THEN \E k \in j..Len(names) :
                  /\ \A n \in j..(k - 1) : ~IsHidden(At(names, n))
                  /\ RefAlignedHidden(comps, i + 1, names, k, opts)
         ELSE /\ j < Len(names)
              /\ matches_with(PatternNew(At(comps, i)), At(names, j), opts)
              /\ IsHidden(At(names, j)) => IsHidden(At(comps, i))
              /\ RefAlignedHidden(comps, i + 1, names, j + 1, opts)

\* C19 (as claimed): with require_literal_leading_dot, no yielded path has a
\* name starting with a dot unless the component aligned with that name starts
\* with a literal dot; a `**` component yields no such entry and descends into
\* none.
C19_TraversalSkipsHidden ==
    (mode = "glob" /\ options.require_literal_leading_dot /\ last.some) =>
        RefAlignedHidden(Components(src), 0, last.path, 0, options)

----------------------------------------------------------------------------
(* Claims about directories that cannot be listed *)

\* the tree with every directory readable
Readable(F) == [F EXCEPT !.unreadable = {}]

\* the component consists of literal characters only
IsLiteralComponent(comp) == pattern_as_str(PatternNew(comp)).some

\* the directory that holds the name at index j of the path cannot be listed
ParentUnreadable(F, names, j) == Resolve(F, SubSeq(names, 1, j)) \in F.unreadable

\* some directory on the way to the path cannot be listed
UnreadableAncestor(F, names) ==
    \E j \in 0..(Len(names) - 1) : ParentUnreadable(F, names, j)

\* names j.. can be aligned with components i.. so that every name found in a
\* directory that cannot be listed is aligned with a literal component
RECURSIVE RefAlignedReadable(_, _, _, _, _, _)
RefAlignedReadable(F, comps, i, names, j, opts) ==
    IF i = Len(comps) THEN j = Len(names)
    ELSE IF IsRecursiveComponent(At(comps, i))
         THEN \E k \in j..Len(names) :
                  /\ \A n \in j..(k - 1) : ~ParentUnreadable(F, names, n)
                  /\ RefAlignedReadable(F, comps, i + 1, names, k, opts)
         ELSE /\ j < Len(names)
              /\ matches_with(PatternNew(At(comps, i)), At(names, j), opts)
              /\ ParentUnreadable(F, names, j) => IsLiteralComponent(At(comps, i))
              /\ RefAlignedReadable(F, comps, i + 1, names, j + 1, opts)

\* s is t with some elements left out
RECURSIVE IsSubsequence(_, _)
IsSubsequence(s, t) ==
    IF s = <<>> THEN TRUE
    ELSE IF t = <<>> THEN FALSE
    ELSE IF Head(s) = Head(t) THEN IsSubsequence(Tail(s), Tail(t))
    ELSE IsSubsequence(s, Tail(t))

\* C20: a directory whose listing fails contributes no entries, no error is
\* surfaced, the work stack is left as it was, and the traversal goes on to
\* yield the matches of every other branch: glob_with returns an iterator;
\* a yielded name found in an unlistable directory was named literally by the
\* pattern; filling the stack from an unlistable directory for a wildcard
\* component leaves the stack unchanged; a finished traversal has yielded, in
\* the same order, the paths of the fully readable tree, all those with no
\* unlistable directory on their way included.
C20_UnreadableDirectoriesAreSkipped ==
    (mode = "glob" /\ pc # "start") =>
        /\ paths.kind = "Ok"
        /\ last.some => RefAlignedReadable(fs, Components(src), 0, last.path, 0, options)
        /\ \A d \in fs.unreadable : \A idx \in 0..(Len(paths.dir_patterns) - 1) :
              ~pattern_as_str(At(paths.dir_patterns, idx)).some =>
                  fill_todo(fs, paths.todo, paths.dir_patterns, idx, d, paths.options) = paths.todo
        /\ pc = "done" =>
              LET full == glob_vec(Readable(fs), src, options)
              IN  /\ IsSubsequence(yielded, full)
                  /\ \A k \in 1..Len(full) :
                        ~UnreadableAncestor(fs, full[k]) => full[k] \in Yielded

\* C20 witness: a finished traversal of a two-wildcard pattern in which the
\* listing of the directory a failed has yielded an entry of another directory
\* and left out the entries of a
C20_Witness ==
    /\ mode = "glob" /\ pc = "done"
    /\ <<na>> \in fs.unreadable /\ <<>> \notin fs.unreadable
    /\ Len(Components(src)) = 2
    /\ \A k \in 1..2 : ~IsLiteralComponent(Components(src)[k])
    /\ \E k \in 1..Len(yielded) : Len(yielded[k]) = 2 /\ yielded[k][1] # na
    /\ Len(yielded) < Len(glob_vec(Readable(fs), src, options))

----------------------------------------------------------------------------
(* C21: entries whose name is not valid UTF-8 *)

\* a name that is not valid UTF-8 (no pattern of GlobInputs spells it)
nB == <<"B">>

\* the trees with a file B and a directory a/B{b} added, both named in bytes
\* that are not UTF-8
BytesTree(T) ==
    [T EXCEPT !.dirs = @ \cup {<<na, nB>>},
              !.files = @ \cup {<<nB>>, <<na, nB, nb>>},
              !.nonutf8 = {<<nB>>, <<na, nB>>}]

BytesTrees == {BytesTree(TreeA), BytesTree(TreeB)}

\* traversals of trees that hold entries with a non-UTF-8 name
InitGlobBytes == InitGlobWith(GlobInputs, BytesTrees, {MatchOptionsNew})

SpecGlobBytes == InitGlobBytes /\ [][NextGlob]_vars

\* C21: an entry whose final name is not valid UTF-8 is never yielded and
\* never makes the traversal fail, whatever the pattern (a wildcard
\* component, a `**` followed by other components, a trailing `**`).
C21_NonUtf8NeverYielded ==
    mode = "glob" =>
        /\ paths.kind \in {"None", "Ok"}
        /\ \A k \in 1..Len(yielded) : Resolve(fs, yielded[k]) \notin fs.nonutf8

----------------------------------------------------------------------------
(* C22: ranges under case_sensitive = false *)

\* the endpoints of the ranges: lower-case and upper-case letters, non-letters
RangeEnds == {"a", "b", "A", "B", ".", "?"}

\* the characters matched against the ranges
RangeChars == RangeEnds \cup {"["}

\* the patterns [x-y]
RangeSources == {<<"[", x, "-", y, "]">> : x \in RangeEnds, y \in RangeEnds}

\* the two values of case_sensitive, the other options as MatchOptions::new()
CaseOptions == {[MatchOptionsNew EXCEPT !.case_sensitive = cs] : cs \in BOOLEAN}

InitRange ==
    /\ mode = "range" /\ pc = "start"
    /\ src \in RangeSources
    /\ pattern = PatternNew(src)
    /\ options \in CaseOptions
    /\ escaped = <<>> /\ file = <<>> /\ result = "None"
    /\ fs = EmptyTree /\ paths = NoPaths /\ yielded = <<>> /\ last = NothingYet

\* let result = pattern.matches_with(c, &options) for a one-character string
MatchesRange ==
    /\ mode = "range" /\ pc = "start"
    /\ \E c \in RangeChars :
        /\ file' = <<c>>
        /\ result' = matches_with(pattern, <<c>>, options)
    /\ pc' = "done"
    /\ UNCHANGED <<mode, src, escaped, pattern, options, fs, paths, yielded, last>>

NextRange == MatchesRange

SpecRange == InitRange /\ [][NextRange]_vars

InRange(lo, hi, c) == Code[c] >= Code[lo] /\ Code[c] <= Code[hi]

IsLowerLetter(c) == c \in {"a", "b"}
IsUpperLetter(c) == c \in {"A", "B"}
IsLetter(c) == IsLowerLetter(c) \/ IsUpperLetter(c)

SameCaseLetters(lo, hi) ==
    (IsLowerLetter(lo) /\ IsLowerLetter(hi)) \/ (IsUpperLetter(lo) /\ IsUpperLetter(hi))

----------------------------------------------------------------------------
(* C23: the first member of a bracket class *)

\* the number of leading `a` characters of p
RECURSIVE LiteralPrefix(_)
LiteralPrefix(p) ==
    IF p # <<>> /\ Head(p) = "a" THEN 1 + LiteralPrefix(Tail(p)) ELSE 0

\* p is some `a`s followed by an opening bracket
OpensClass(p) == LiteralPrefix(p) < Len(p) /\ p[LiteralPrefix(p) + 1] = "["

IsNegated(p) ==
    LiteralPrefix(p) + 2 <= Len(p) /\ p[LiteralPrefix(p) + 2] = "!"

\* the position (from 1) of the character that is a member whatever it is
FirstMember(p) == LiteralPrefix(p) + (IF IsNegated(p) THEN 3 ELSE 2)

\* p is `a`s followed by one class that ends the pattern: the class is closed
\* by the first `]` after its first member
IsOneClass(p) ==
    /\ OpensClass(p)
    /\ Len(p) > FirstMember(p)
    /\ p[Len(p)] = "]"
    /\ \A k \in (FirstMember(p) + 1)..(Len(p) - 1) : p[k] # "]"

\* the first member is `]` and no `]` follows it
IsUnclosedAfterBracket(p) ==
    /\ OpensClass(p)
    /\ Len(p) >= FirstMember(p)
    /\ p[FirstMember(p)] = "]"
    /\ \A k \in (FirstMember(p) + 1)..Len(p) : p[k] # "]"

ClassMembers(p) == {p[k] : k \in FirstMember(p)..(Len(p) - 1)}

\* C23: the character right after `[` (or after `[!`) is a member of the class
\* even when it is `]`, and the class ends at the first `]` after that member:
\* the pattern matches exactly the strings made of its literal prefix and one
\* member (one non-member for a negated class), so `[]]` matches exactly `]`
\* and `[!]]` every one-character string but `]`; `[]` and `[!]` with no later
\* `]` are rejected as an invalid range at the bracket.
C23_FirstMemberIsLiteral ==
    (mode = "new" /\ pc = "done") =>
        /\ IsOneClass(src) =>
            /\ pattern.kind = "Ok"
            /\ Len(pattern.tokens) = LiteralPrefix(src) + 1
            /\ \A str \in SeqsUpTo(NewAlphabet, LiteralPrefix(src) + 2) :
                matches(pattern, str) <=>
                    /\ Len(str) = LiteralPrefix(src) + 1
                    /\ \A k \in 1..LiteralPrefix(src) : str[k] = "a"
                    /\ (str[Len(str)] \in ClassMembers(src)) # IsNegated(src)
        /\ IsUnclosedAfterBracket(src) =>
            pattern = Err(LiteralPrefix(src), ERROR_INVALID_RANGE)

\* `[]]`, `[!]]` compiled, `[]` and `[!]` rejected
C23_Witness ==
    /\ mode = "new" /\ pc = "done"
    /\ \/ src = <<"[", "]", "]">> /\ pattern.kind = "Ok" /\ matches(pattern, <<"]">>)
       \/ src = <<"[", "!", "]", "]">> /\ pattern.kind = "Ok" /\ ~matches(pattern, <<"]">>)

----------------------------------------------------------------------------
(* C24: runs of recursive tokens *)

\* C24: the token list of a compiled pattern never holds two adjacent
\* AnyRecursiveSequence tokens, a run at the very start of the pattern
\* (`**/**`) included.
C24_NoAdjacentRecursiveTokens ==
    (mode = "new" /\ pc = "done" /\ pattern.kind = "Ok") =>
        \A k \in 1..(Len(pattern.tokens) - 1) :
            ~(pattern.tokens[k] = AnyRecursiveSequence
                /\ pattern.tokens[k + 1] = AnyRecursiveSequence)

----------------------------------------------------------------------------
(* The traversal with a record of what it does: the work stack together    *)
(* with the directories handed to list_dir_sorted (with the index of the   *)
(* component expanded there), the entries pushed on the stack and the      *)
(* paths returned, each in the order of the calls, and the number of       *)
(* entries popped.                                                         *)

Traced(todo) ==
    [todo |-> todo, reads |-> <<>>, pushes |-> <<>>, pops |-> 0, yields |-> <<>>]

\* fill_todo, recording each list_dir_sorted call and each push
RECURSIVE fill_todo_traced(_, _, _, _, _, _)
fill_todo_traced(F, st, patterns, idx, path, opts) ==
    LET pat == At(patterns, idx)
        str == pattern_as_str(pat)
        push(s, entries) ==
            [s EXCEPT !.todo = @ \o entries, !.pushes = @ \o entries]
        add(s, next_path) ==
            IF idx + 1 = Len(patterns)
            THEN push(s, << [path |-> next_path, idx |-> SENTINEL] >>)
            ELSE fill_todo_traced(F, s, patterns, idx + 1, next_path, opts)
        addSpecial(s, special) ==
            IF matches_with(pat, special, opts) THEN add(s, join(path, special)) ELSE s
    IN  IF str.some THEN
            LET special == str.s = <<".">> \/ str.s = <<".", ".">>
                next_path == join(path, str.s)
            IN  IF LiteralAccepted(F, special, path, next_path)
                THEN add(st, next_path)
                ELSE st
        ELSE
            LET listed == list_dir_sorted(F, path)
                read == [st EXCEPT !.reads = Append(@, [path |-> path, idx |-> idx])]
            IN  IF ~listed.some THEN read
                ELSE LET extended ==
                             push(read, [k \in 1..Len(listed.entries) |->
                                            [path |-> listed.entries[k], idx |-> idx]])
                     IN  IF Len(pat.tokens) > 0 /\ pat.tokens[1] = Char(".")
                         THEN addSpecial(addSpecial(extended, SpecialEntries[1]), SpecialEntries[2])
                         ELSE extended

\* the loop of next() on a traced stack: the traced stack it leaves and the
\* value it returns
RECURSIVE NextLoopTraced(_, _, _)
NextLoopTraced(F, P, st) ==
    LET none(s) == [st |-> s, some |-> FALSE, path |-> <<>>]
        some(s, p) == [st |-> [s EXCEPT !.yields = Append(@, p)], some |-> TRUE, path |-> p]
    IN
    IF Len(P.dir_patterns) = 0 \/ st.todo = <<>> THEN none(st)
    ELSE
    LET len == Len(P.dir_patterns)
        todo == st.todo
        path == todo[Len(todo)].path
        idx == todo[Len(todo)].idx
        rest == [st EXCEPT !.todo = SubSeq(todo, 1, Len(todo) - 1), !.pops = @ + 1]
        fill(i) == fill_todo_traced(F, rest, P.dir_patterns, i, path, P.options)
        name == filename_str(F, path)
    IN  IF idx = SENTINEL THEN
            IF P.require_dir /\ ~is_dir(F, path) THEN NextLoopTraced(F, P, rest)
            ELSE some(rest, path)
        ELSE
        LET pat == At(P.dir_patterns, idx)
            is_recursive == pat.is_recursive
            is_last == idx = len - 1
        IN  IF is_recursive /\ ~is_last THEN
                LET next == SkipRecursive(P.dir_patterns, idx + 1)
                IN  IF next = len THEN some(fill(next - 1), path)
                    ELSE IF ~name.some THEN NextLoopTraced(F, P, rest)
                    ELSE
                    LET is_match == matches_with(At(P.dir_patterns, next), name.s, P.options)
                        current_idx == IF is_match THEN next ELSE next - 1
                        next_idx == IF is_match THEN MatchedNextIdx(next) ELSE next - 1
                    IN  IF current_idx = len - 1 THEN
                            IF ~P.require_dir \/ is_dir(F, path)
                            THEN some(rest, path)
                            ELSE NextLoopTraced(F, P, rest)
                        ELSE NextLoopTraced(F, P, fill(next_idx))
            ELSE IF is_recursive /\ is_last THEN some(fill(idx), path)
            ELSE IF ~name.some THEN NextLoopTraced(F, P, rest)
            ELSE IF matches_with(pat, name.s, P.options) THEN
                IF idx = len - 1 THEN
                    IF ~P.require_dir \/ is_dir(F, path)
                    THEN some(rest, path)
                    ELSE NextLoopTraced(F, P, rest)
                ELSE NextLoopTraced(F, P, fill(idx + 1))
            ELSE NextLoopTraced(F, P, rest)

\* next() until it returns None
RECURSIVE CollectTraced(_, _, _)
CollectTraced(F, P, st) ==
    LET r == NextLoopTraced(F, P, st)
    IN  IF r.some THEN CollectTraced(F, P, r.st) ELSE r.st

\* glob_with(pat, opts) and then next() until None, for a pattern glob_with
\* accepts: the record of the whole traversal
Traversal(F, pat, opts) ==
    LET P == glob_with(F, pat, opts)
        seeded == IF Len(P.dir_patterns) > 0
                  THEN fill_todo_traced(F, Traced(<<>>), P.dir_patterns, 0, <<>>, opts)
                  ELSE Traced(<<>>)
    IN  CollectTraced(F, P, seeded)

\* the default options and the opposite of each of them
TracedOptions == {MatchOptionsNew, MatchOptions(FALSE, TRUE, TRUE)}

\* the traversals whose record is examined
InitGlobTraced == InitGlobWith(GlobInputs, Trees, TracedOptions)

SpecGlobTraced == InitGlobTraced /\ [][NextGlob]_vars

----------------------------------------------------------------------------
(* C25: literal components are checked, not listed *)

\* the component is written with no `?`, `*` or `[`
IsPlainComponent(comp) == \A k \in 1..Len(comp) : comp[k] \notin {"?", "*", "["}

IsSpecialComponent(comp) == comp = <<".">> \/ comp = <<".", ".">>

\* every component of the path `comps` is accepted at the path before it: `.`
\* and `..` when that path is a directory, any other name when the joined
\* path exists
LiteralChainAccepted(F, comps) ==
    \A k \in 1..Len(comps) :
        IF IsSpecialComponent(comps[k])
        THEN is_dir(F, SubSeq(comps, 1, k - 1))
        ELSE exists(F, SubSeq(comps, 1, k))

\* C25: a component written with literal characters only is expanded without
\* a directory listing: list_dir_sorted is called only where a non-literal
\* component is expanded; a pattern of literal components alone lists nothing
\* and yields its path exactly when every component is accepted at the path
\* before it (`.` and `..` iff that path is a directory, another name iff the
\* joined path exists), so `x/..` yields nothing when x is a file or missing.
C25_LiteralComponentsAreNotListed ==
    (mode = "glob" /\ pc = "done") =>
        LET comps == Components(src)
            run == Traversal(fs, src, options)
        IN  /\ run.yields = yielded
            /\ \A k \in 1..Len(run.reads) : ~IsPlainComponent(comps[run.reads[k].idx + 1])
            /\ (comps # <<>> /\ \A k \in 1..Len(comps) : IsPlainComponent(comps[k])) =>
                /\ run.reads = <<>>
                /\ yielded =
                       IF /\ LiteralChainAccepted(fs, comps)
                          /\ paths.require_dir => is_dir(fs, comps)
                       THEN <<comps>>
                       ELSE <<>>

\* `b/..` where b is a regular file: nothing listed, nothing yielded
C25_Witness ==
    /\ mode = "glob" /\ pc = "done"
    /\ src = <<"b", "/", ".", ".">> /\ fs = TreeA
    /\ yielded = <<>>
    /\ Traversal(fs, src, options).reads = <<>>

----------------------------------------------------------------------------
(* C26: the indices on the work stack *)

\* the value of `-1 as usize`: all bits set
AllOnes == USIZE_MODULUS - 1

\* the entry carries the sentinel or the index of a component
ValidEntry(entry, len) ==
    entry.idx = AllOnes \/ (0 <= entry.idx /\ entry.idx < len)

\* every entry of the stack, and every entry the finished traversal pushed
EntriesAreValid ==
    (mode = "glob" /\ paths.kind = "Ok") =>
        /\ \A k \in 1..Len(paths.todo) :
               ValidEntry(paths.todo[k], Len(paths.dir_patterns))
        /\ pc = "done" =>
               LET run == Traversal(fs, src, options)
               IN  /\ run.yields = yielded
                   /\ \A k \in 1..Len(run.pushes) :
                          ValidEntry(run.pushes[k], Len(paths.dir_patterns))

\* next() called with a sentinel entry on top of the stack whose path passes
\* the directory requirement pops that entry and returns its path
SentinelOnTopIsYielded ==
    (/\ mode = "glob" /\ pc \in {"iter", "done"} /\ paths.todo # <<>>
     /\ paths.todo[Len(paths.todo)].idx = AllOnes
     /\ ~paths.require_dir \/ is_dir(fs, paths.todo[Len(paths.todo)].path))
    => /\ last' = [some |-> TRUE, path |-> paths.todo[Len(paths.todo)].path]
       /\ paths'.todo = SubSeq(paths.todo, 1, Len(paths.todo) - 1)

\* C26: every entry of the work stack carries the sentinel (`-1 as usize`) or
\* an index idx with 0 <= idx < number of components, and an entry with the
\* sentinel is returned by next(), subject to the directory requirement,
\* without its name being matched against a pattern again.
C26_StackIndicesValid == []EntriesAreValid /\ [][SentinelOnTopIsYielded]_vars

\* next() has returned the path `..` of a sentinel entry, another sentinel
\* entry is on top of the stack and entries with a component index are below
C26_Witness ==
    /\ mode = "glob" /\ pc = "iter" /\ Len(paths.todo) >= 2
    /\ last = [some |-> TRUE, path |-> << <<".", ".">> >>]
    /\ paths.todo[Len(paths.todo)].idx = AllOnes
    /\ \E k \in 1..Len(paths.todo) : paths.todo[k].idx \in 0..(Len(paths.dir_patterns) - 1)

----------------------------------------------------------------------------
(* C27: the traversal ends *)

\* the caller keeps calling next(): glob_with and next() are not postponed
\* for ever
LiveComps == { <<"a">>, <<"*">>, <<"*", "*">>, <<".", "*">> }

\* patterns of three components: a `**` followed by two components, three
\* wildcards, `**` between components that match `.` and `..`
LiveTriples ==
    { << <<"*", "*">>, <<"a">>, <<"*">> >>,
      << <<"*">>, <<"*">>, <<"*">> >>,
      << <<".", "*">>, <<"*", "*">>, <<".", "*">> >> }

\* the patterns of the runs that are followed to their end: one component,
\* two components, the three-component patterns above; with or without a
\* trailing separator
LiveInputs ==
    {JoinComps(cs) \o tail :
        cs \in {<<c>> : c \in LiveComps} \cup (LiveComps \X LiveComps) \cup LiveTriples,
        tail \in {<<>>, <<"/">>}}

\* the iterator glob_with has returned, before the first call of next()
InitGlobLive ==
    /\ mode = "glob" /\ pc = "iter"
    /\ src \in LiveInputs
    /\ fs \in Trees
    /\ options = MatchOptionsNew
    /\ paths = glob_with(fs, src, options)
    /\ escaped = <<>> /\ pattern = NoPattern /\ file = <<>> /\ result = "None"
    /\ yielded = <<>> /\ last = NothingYet

\* one iteration of the loop of next(): the stack it leaves, and either the
\* value next() returns or `again` for another iteration
NextStep(F, P, todo) ==
    LET return(r) == [again |-> FALSE, todo |-> r.todo, some |-> r.some, path |-> r.path]
        continue(td) == [again |-> TRUE, todo |-> td, some |-> FALSE, path |-> <<>>]
    IN
    IF Len(P.dir_patterns) = 0 \/ todo = <<>> THEN return(ReturnNone(todo))
    ELSE
    LET len == Len(P.dir_patterns)
        path == todo[Len(todo)].path
        idx == todo[Len(todo)].idx
        rest == SubSeq(todo, 1, Len(todo) - 1)
        fill(i) == fill_todo(F, rest, P.dir_patterns, i, path, P.options)
        name == filename_str(F, path)
    IN  IF idx = SENTINEL THEN
            IF P.require_dir /\ ~is_dir(F, path) THEN continue(rest)
            ELSE return(ReturnSome(rest, path))
        ELSE
        LET pat == At(P.dir_patterns, idx)
            is_recursive == pat.is_recursive
            is_last == idx = len - 1
        IN  IF is_recursive /\ ~is_last THEN
                LET next == SkipRecursive(P.dir_patterns, idx + 1)
                IN  IF next = len THEN return(ReturnSome(fill(next - 1), path))
                    ELSE IF ~name.some THEN continue(rest)
                    ELSE
                    LET is_match == matches_with(At(P.dir_patterns, next), name.s, P.options)
                        current_idx == IF is_match THEN next ELSE next - 1
                        next_idx == IF is_match THEN MatchedNextIdx(next) ELSE next - 1
                    IN  IF current_idx = len - 1 THEN
                            IF ~P.require_dir \/ is_dir(F, path)
                            THEN return(ReturnSome(rest, path))
                            ELSE continue(rest)
                        ELSE continue(fill(next_idx))
            ELSE IF is_recursive /\ is_last THEN return(ReturnSome(fill(idx), path))
            ELSE IF ~name.some THEN continue(rest)
            ELSE IF matches_with(pat, name.s, P.options) THEN
                IF idx = len - 1 THEN
                    IF ~P.require_dir \/ is_dir(F, path)
                    THEN return(ReturnSome(rest, path))
                    ELSE continue(rest)
                ELSE continue(fill(idx + 1))
            ELSE continue(rest)

\* next(), one iteration of its loop at a time: pc is "loop" while the call
\* has not returned
PathsPop ==
    /\ mode = "glob" /\ pc \in {"iter", "loop", "done"}
    /\ \E r \in {NextStep(fs, paths, paths.todo)} :
           /\ paths' = [paths EXCEPT !.todo = r.todo]
           /\ last' = IF r.again THEN last ELSE [some |-> r.some, path |-> r.path]
           /\ yielded' = IF r.some THEN Append(yielded, r.path) ELSE yielded
           /\ pc' = IF r.again THEN "loop" ELSE IF r.some THEN "iter" ELSE "done"
    /\ UNCHANGED <<mode, src, escaped, pattern, file, options, result, fs>>

NextGlobLive == PathsPop

\* the caller keeps calling next() and a call that has begun keeps running:
\* no step of the traversal is postponed for ever
SpecGlobLive == InitGlobLive /\ [][NextGlobLive]_vars /\ WF_vars(NextGlobLive)

\* a call of next() made after None was returned returns None and leaves the
\* stack empty
NoneStaysNone ==
    (mode = "glob" /\ pc = "done") =>
        /\ pc' = "done" /\ last' = NothingYet /\ paths'.todo = <<>>

\* when None is returned the stack is empty and every entry that was pushed
\* during the traversal has been popped, once
AllPushedArePopped ==
    (mode = "glob" /\ pc = "done") =>
        /\ paths.todo = <<>> /\ last = NothingYet
        /\ LET run == Traversal(fs, src, options)
           IN  /\ run.yields = yielded
               /\ run.todo = <<>>
               /\ run.pops = Len(run.pushes)

\* C27: every call of next() returns after finitely many pops (each entry
\* that was pushed is popped once), repeated calls of next() eventually
\* return None, and once None was returned every later call returns None and
\* the work stack stays empty.
C27_TraversalTerminates ==
    /\ (pc = "loop") ~> (pc \in {"iter", "done"})
    /\ <>(mode = "glob" /\ pc = "done")
    /\ []AllPushedArePopped
    /\ [][NoneStaysNone]_vars

\* None was returned after three paths, and next() was called again
C27_Witness ==
    /\ mode = "glob" /\ pc = "done" /\ Len(yielded) >= 3
    /\ last = NothingYet /\ paths.todo = <<>>

----------------------------------------------------------------------------
(* C28: nothing is visited twice *)

\* no component of the pattern is `.` or `..` or starts with a literal `.`
NoDotComponents(pat) ==
    \A k \in 1..Len(Components(pat)) :
        Components(pat)[k] # <<>> => Components(pat)[k][1] # "."

NoDuplicates(s) == \A i, j \in 1..Len(s) : s[i] = s[j] => i = j

PathsOf(entries) == [k \in 1..Len(entries) |-> entries[k].path]

\* C28: in the traversal of a pattern none of whose components is `.` or `..`
\* or starts with a literal `.`, no path is yielded twice, no path is pushed
\* on the work stack more than once and no directory is listed more than
\* once.
C28_NothingVisitedTwice ==
    (mode = "glob" /\ pc = "done" /\ NoDotComponents(src)) =>
        LET run == Traversal(fs, src, options)
        IN  /\ run.yields = yielded
            /\ NoDuplicates(yielded)
            /\ NoDuplicates(PathsOf(run.pushes))
            /\ NoDuplicates(PathsOf(run.reads))

\* `**/b` in the first tree: directories are listed level after level, and
\* the paths b and a/b/b were yielded
C28_Witness ==
    /\ mode = "glob" /\ pc = "done" /\ fs = TreeA
    /\ src = <<"*", "*", "/", "b">>
    /\ Len(Traversal(fs, src, options).reads) >= 3
    /\ Len(yielded) >= 2

====
